---- MODULE Spec2Model ----
(***************************************************************************)
(* Model of the lhi HTTPS server engine: header framing (read_header),    *)
(* request parsing (HttpRequest::from), response building (respond) and   *)
(* the connection session (handle_connection), and the acceptor threads   *)
(* that spawn the sessions (listen, accept_connections).                   *)
(*                                                                         *)
(* A byte is a one-character string; NUL and HI stand for the single      *)
(* bytes 0x00 and 0x80.  Text that the code handles as a unit (status     *)
(* strings, error messages, fixed fragments of a response) is one string. *)
(***************************************************************************)
EXTENDS Integers, Sequences, FiniteSets, TLC

VARIABLES
    wire,           \* the bytes the peer sends on this connection, in order
    pos,            \* how many bytes of wire the transport has handed out
    http_options,   \* HttpSettings shared by the session
    threads,        \* listen: `threads`, -1 before listen is called
    handler_threads,\* listen: `handler_threads`, the position of each acceptor thread
    connections,    \* the threads accept_connections spawned, one record per session
    accepts,        \* history: how many accept calls returned Ok
    accept_errors,  \* history: how many accept calls returned Err
    VERSION,        \* the static that version() reads and initialises
    tls,            \* the rustls session: "handshaking", "established" or "failed"
    pc,             \* position of the session
    header,         \* read_header: accumulator `header`
    rest,           \* read_header: leftover `rest`
    buf,            \* read_header: the chunk under scan when a short read is pending
    idx,            \* read_header: 1-based position of the '\r' that caused the short read
    header_result,  \* "pending", "ok" or the error message of read_header
    zero_reads,     \* history: zero-length reads returned to read_header
    raw_header,     \* HttpRequest::from: the header text it was given
    raw_body,       \* HttpRequest::from: `raw_body`, the leftover plus what was read
    buf_len,        \* HttpRequest::from: `buf_len`, the content-length header as an Option
    con_len,        \* HttpRequest::from: `con_len`, -1 before it is parsed
    read_fails,     \* HttpRequest::from: `read_fails`
    request_result, \* "pending", "ok", "panic" or the error message of from
    request,        \* the HttpRequest returned when request_result = "ok"
    body_reads,     \* history: the lengths returned by the body reads, in order
    handler_calls,  \* history: how often the session called the handler
    handler_arg,    \* history: the status of the Result the handler was given
    resp_data,      \* history: the ResponseData given to the respond that built response
    resp_content,   \* history: the ResponseContent given to that respond
    response,       \* handle_connection: `response`, the bytes to write
    written         \* "none", "all" once write_all and flush returned Ok, "error"

transportVars == <<wire, pos>>
headerVars == <<header, rest, buf, idx, header_result, zero_reads, tls>>
fromVars == <<raw_header, raw_body, buf_len, con_len, read_fails, request_result, request,
              body_reads>>

sessionVars == <<handler_calls, handler_arg, resp_data, resp_content, response, written,
                VERSION>>

\* what the threads of listen and accept_connections hold
serverVars == <<threads, handler_threads, connections, accepts, accept_errors>>

\* what no step of one session changes
staticVars == <<http_options, serverVars>>

vars == <<transportVars, staticVars, pc, headerVars, fromVars, sessionVars>>

-----------------------------------------------------------------------------
(* Bytes *)

CR == "\r"
LF == "\n"
NUL == "<00>"
HI == "<80>"

\* the bytes the modelled peer chooses from when any stream is enumerated
WireBytes == {CR, LF, "x"}

-----------------------------------------------------------------------------
(* Bounds *)

MaxWire == 6
MaxHeaderBuffer == 4
MinHeaderSize == 4
MaxHeaderSize == 7
MaxZeroReads == 2
MaxThreads == 2
MaxConnections == 2
MaxAcceptErrors == 1
MaxRest == 2
MaxBody == 4
MaxBodySize == 4
MaxBodyBuffer == 3
MaxAttempts == 3
MaxParts == 2
MultipartBodySize == 400
MultipartBodyBuffer == 2
SessionHeaderBuffer == 5
SessionHeaderSize == 96
SessionBodySize == 12
SessionBodyBuffer == 2
SessionAttempts == 1
\* usize::MAX, scaled to the model
UsizeMax == 999

-----------------------------------------------------------------------------
(* Generic helpers *)

Min(a, b) == IF a < b THEN a ELSE b

SeqsUpTo(S, n) == UNION {[1..k -> S] : k \in 0..n}

\* vec![0u8; n]
Zeros(n) == [k \in 1..n |-> NUL]

\* <<s[1],...,s[n]>> is a prefix of t
IsPrefix(s, t) == Len(s) <= Len(t) /\ SubSeq(t, 1, Len(s)) = s

-----------------------------------------------------------------------------
(* Transport: Read for rustls::Stream.  A read into a buffer of n bytes    *)
(* returns between 1 and n of the bytes not yet handed out, or 0 when the *)
(* peer has closed after sending everything.  The first read of a         *)
(* connection completes the TLS handshake before it returns plaintext.    *)

ReadSizes(n) ==
    IF pos = Len(wire) \/ n = 0 THEN {0} ELSE 1..Min(n, Len(wire) - pos)

ReadBytes(n) == SubSeq(wire, pos + 1, pos + n)

-----------------------------------------------------------------------------
(* read_header *)

\* buf[i + 1] == b'\n' && buf[i + 2] == b'\r' && buf[i + 3] == b'\n', j = i + 1
HeaderEndAt(b, j) == b[j + 1] = LF /\ b[j + 2] = CR /\ b[j + 3] = LF

\* positions of the 'f loop at which it leaves the chunk: a '\r' with fewer
\* than 4 bytes from it to the end of the chunk, or a '\r' starting the marker
StopPositions(b) ==
    {j \in 1..Len(b) : b[j] = CR /\ (Len(b) < j + 3 \/ HeaderEndAt(b, j))}

\* the first such position, 0 when the loop runs to the end of the chunk
FirstStop(b) ==
    IF StopPositions(b) = {} THEN 0
    ELSE CHOOSE j \in StopPositions(b) : \A k \in StopPositions(b) : j <= k

\* header.len() + length > http_options.max_header_size
HeaderTooLarge(have, length) == have + length > http_options.max_header_size

\* String::from_utf8(header): a lone 0x80 is not UTF-8, the other bytes are ASCII
ValidUtf8(bytes) == \A k \in 1..Len(bytes) : bytes[k] # HI

\* the value read_header returns once the loop is left with header h
HeaderReturn(h) == IF ValidUtf8(h) THEN "ok" ELSE "invalid utf-8 sequence"

HeaderFrame == <<staticVars, wire, fromVars, sessionVars>>

\* one pass of 'l: a read of up to header_buffer bytes, the size check, the scan
ReadHeaderChunk ==
    /\ pc = "read_header"
    /\ zero_reads < MaxZeroReads
    /\ \E length \in ReadSizes(http_options.header_buffer) :
         LET chunk == ReadBytes(length)
             j == FirstStop(chunk)
         IN
         /\ pos' = pos + length
         /\ tls' = "established"
         /\ zero_reads' = IF length = 0 THEN zero_reads + 1 ELSE zero_reads
         /\ IF HeaderTooLarge(Len(header), length)
            THEN /\ pc' = "header_done"
                 /\ header_result' = "Max header size exceeded"
                 /\ UNCHANGED <<header, rest, buf, idx>>
            ELSE IF j = 0
            THEN \* no '\r' stops the scan: the chunk is appended at its last byte
                 /\ header' = header \o chunk
                 /\ UNCHANGED <<pc, header_result, rest, buf, idx>>
            ELSE IF Len(chunk) < j + 3
            THEN \* too few bytes after the '\r': a short read follows
                 /\ pc' = "short_read"
                 /\ buf' = chunk
                 /\ idx' = j
                 /\ UNCHANGED <<header, rest, header_result>>
            ELSE \* the marker lies within the chunk
                 /\ header' = header \o SubSeq(chunk, 1, j + 3)
                 /\ rest' = SubSeq(chunk, j + 4, Len(chunk))
                 /\ pc' = "header_done"
                 /\ header_result' = HeaderReturn(header')
                 /\ UNCHANGED <<buf, idx>>
    /\ UNCHANGED HeaderFrame

\* the read into buf_temp, whose result is dropped, and the check of buf2
ShortRead ==
    /\ pc = "short_read"
    /\ LET need == idx + 3 - Len(buf) IN
       \E n \in ReadSizes(need) :
         LET buf_temp == ReadBytes(n) \o Zeros(need - n)
             buf2 == buf \o buf_temp
         IN
         /\ pos' = pos + n
         /\ header' = header \o buf2
         /\ IF HeaderEndAt(buf2, idx)
            THEN /\ pc' = "header_done"
                 /\ header_result' = HeaderReturn(header')
            ELSE /\ pc' = "read_header"
                 /\ UNCHANGED header_result
         /\ buf' = <<>>
         /\ idx' = 0
    /\ UNCHANGED <<rest, zero_reads, tls>>
    /\ UNCHANGED HeaderFrame

\* stream.read(..) returns Err in read_header: or_else(Fail::from)?  The
\* handshake runs inside the first read of the rustls stream (ServerSession::new
\* and Stream::new do no I/O), so a failed handshake is an Err of that read.
HeaderReadError ==
    /\ pc \in {"read_header", "short_read"}
    /\ pc' = "header_done"
    /\ header_result' = "transport error"
    /\ tls' = IF tls = "handshaking" THEN "failed" ELSE tls
    /\ UNCHANGED <<pos, header, rest, buf, idx, zero_reads>>
    /\ UNCHANGED HeaderFrame

-----------------------------------------------------------------------------
(* Text helpers: the str and BTreeMap operations the parser uses *)

\* the bytes of a string literal
Chars(s) == [i \in 1..Len(s) |-> SubSeq(s, i, i)]

StartsWith(s, p) == IsPrefix(p, s)

EndsWith(s, p) == Len(p) <= Len(s) /\ SubSeq(s, Len(s) - Len(p) + 1, Len(s)) = p

\* the first place at or after k where sep occurs in s, 0 when there is none
RECURSIVE FindFrom(_, _, _)
FindFrom(s, sep, k) ==
    IF k + Len(sep) - 1 > Len(s) THEN 0
    ELSE IF SubSeq(s, k, k + Len(sep) - 1) = sep THEN k
    ELSE FindFrom(s, sep, k + 1)

FirstOccurrence(s, sep) == FindFrom(s, sep, 1)

\* str::split(sep)
RECURSIVE Split(_, _)
Split(s, sep) ==
    LET k == FirstOccurrence(s, sep) IN
    IF k = 0 THEN <<s>>
    ELSE <<SubSeq(s, 1, k - 1)>> \o Split(SubSeq(s, k + Len(sep), Len(s)), sep)

\* str::splitn(n, sep)
RECURSIVE SplitN(_, _, _)
SplitN(n, s, sep) ==
    LET k == FirstOccurrence(s, sep) IN
    IF n <= 1 \/ k = 0 THEN <<s>>
    ELSE <<SubSeq(s, 1, k - 1)>> \o SplitN(n - 1, SubSeq(s, k + Len(sep), Len(s)), sep)

\* str::lines(): the pieces ended by \n, each without its \n and without a \r
\* before it, then the unterminated remainder when it is not empty
Lines(s) ==
    LET parts == Split(s, <<LF>>)
        n == Len(parts)
        StripCr(l) == IF EndsWith(l, <<CR>>) THEN SubSeq(l, 1, Len(l) - 1) ELSE l
    IN [k \in 1..(IF parts[n] = <<>> THEN n - 1 ELSE n) |->
            IF k < n THEN StripCr(parts[k]) ELSE parts[k]]

Whitespace == {" ", "\t", LF, "\f", CR}

RECURSIVE TrimStart(_)
TrimStart(s) == IF s # <<>> /\ Head(s) \in Whitespace THEN TrimStart(Tail(s)) ELSE s

RECURSIVE TrimEnd(_)
TrimEnd(s) ==
    IF s # <<>> /\ s[Len(s)] \in Whitespace THEN TrimEnd(SubSeq(s, 1, Len(s) - 1)) ELSE s

\* str::trim()
Trim(s) == TrimEnd(TrimStart(s))

UpperLetters == Chars("ABCDEFGHIJKLMNOPQRSTUVWXYZ")
LowerLetters == Chars("abcdefghijklmnopqrstuvwxyz")

LowerOf == [u \in {UpperLetters[k] : k \in 1..26} |->
                LowerLetters[CHOOSE k \in 1..26 : UpperLetters[k] = u]]

\* str::to_lowercase()
ToLowercase(s) ==
    [k \in 1..Len(s) |-> IF s[k] \in DOMAIN LowerOf THEN LowerOf[s[k]] ELSE s[k]]

\* BTreeMap: a function from keys to values
EmptyMap == [k \in {} |-> <<>>]

MapInsert(m, key, value) ==
    [k \in DOMAIN m \cup {key} |-> IF k = key THEN value ELSE m[k]]

\* Option: <<>> is None, <<v>> is Some(v)
MapGet(m, key) == IF key \in DOMAIN m THEN <<m[key]>> ELSE <<>>

-----------------------------------------------------------------------------
(* HttpRequest::from: the header text *)

\* reqln: the first line split at single spaces
RequestLine(raw) == Split(Lines(raw)[1], <<" ">>)

ParseMethod(reqln) == IF reqln[1] = Chars("POST") THEN "POST" ELSE "GET"

\* url: the part of the second token before '?', "/" without a second token
ParseUrl(reqln) ==
    IF Len(reqln) >= 2 THEN SplitN(2, reqln[2], <<"?">>)[1] ELSE Chars("/")

\* get_raw: the part of the second token after the first '?', else ""
ParseGetRaw(reqln) ==
    IF Len(reqln) >= 2 /\ Len(SplitN(2, reqln[2], <<"?">>)) = 2
    THEN SplitN(2, reqln[2], <<"?">>)[2]
    ELSE <<>>

\* headers: of lines 2..n, those with a ':' inserted in order under the
\* trimmed lower-cased key
RECURSIVE ParseHeaders(_, _)
ParseHeaders(lines, n) ==
    IF n <= 1 THEN EmptyMap
    ELSE LET m == ParseHeaders(lines, n - 1)
             hls == SplitN(2, lines[n], <<":">>)
         IN IF Len(hls) = 2
            THEN MapInsert(m, ToLowercase(Trim(hls[1])), Trim(hls[2]))
            ELSE m

\* buf_len: the value under "Content-Length", else the one under "content-length"
ContentLengthHeader(headers) ==
    IF MapGet(headers, Chars("Content-Length")) # <<>>
    THEN MapGet(headers, Chars("Content-Length"))
    ELSE MapGet(headers, Chars("content-length"))

Digits == Chars("0123456789")

DigitOf == [c \in {Digits[d] : d \in 1..10} |-> (CHOOSE d \in 1..10 : Digits[d] = c) - 1]

IsDigit(c) == c \in DOMAIN DigitOf

DigitValue(c) == DigitOf[c]

\* the number a run of digits denotes, -1 when it exceeds usize::MAX
RECURSIVE DigitsValue(_)
DigitsValue(ds) ==
    IF ds = <<>> THEN 0
    ELSE LET front == DigitsValue(SubSeq(ds, 1, Len(ds) - 1))
             v == front * 10 + DigitValue(ds[Len(ds)])
         IN IF front < 0 \/ v > UsizeMax THEN -1 ELSE v

\* str::parse::<usize>(): digits after an optional '+'; -1 stands for Err
ParseUsize(s) ==
    LET ds == IF s # <<>> /\ s[1] = "+" THEN Tail(s) ELSE s IN
    IF ds = <<>> \/ \E k \in 1..Len(ds) : ~IsDigit(ds[k]) THEN -1
    ELSE DigitsValue(ds)

-----------------------------------------------------------------------------
(* parse_parameters, parse_post, parse_post_upload *)

\* A Result is [status, value]: status "ok" with the value, status "panic"
\* for a panic of the thread, any other status is the message of the Fail.
Ok(v) == [status |-> "ok", value |-> v]
Err(msg) == [status |-> msg, value |-> <<>>]
Panic == [status |-> "panic", value |-> <<>>]

\* the map after the first n segments of raw.split('&') were inserted
RECURSIVE InsertParameters(_, _)
InsertParameters(ps, n) ==
    IF n = 0 THEN EmptyMap
    ELSE LET kv == SplitN(2, ps[n], <<"=">>) IN
         MapInsert(InsertParameters(ps, n - 1),
                   ToLowercase(Trim(kv[1])),
                   IF Len(kv) = 2 THEN Trim(kv[2]) ELSE <<>>)

\* parse_parameters: splitn always yields a first piece, so it never fails
ParseParameters(raw) ==
    LET ps == Split(raw, <<"&">>) IN Ok(InsertParameters(ps, Len(ps)))

CRLF == <<CR, LF>>

\* the name of a section: of the pieces of its first line between ';', trimmed,
\* the first that starts with name= gives the text after its first '=' without
\* its first and last byte; that slice panics on a text shorter than 2
SectionName(line) ==
    LET segs == Split(line, <<";">>)
        named == {k \in 1..Len(segs) : StartsWith(Trim(segs[k]), Chars("name="))}
    IN IF named = {} THEN Err("missing name in post body section")
       ELSE LET first == CHOOSE k \in named : \A m \in named : k <= m
                name == Split(Trim(segs[first]), <<"=">>)[2]
            IN IF Len(name) < 2 THEN Panic
               ELSE Ok(SubSeq(name, 2, Len(name) - 1))

\* the value of a section from its third piece
SectionValue(data_section) ==
    LET data_lines == SplitN(2, data_section, CRLF) IN
    IF Len(data_lines) = 2
    THEN IF data_lines[1] = <<>> THEN data_lines[2]
         ELSE IF data_lines[2] = <<>> THEN data_lines[1]
         ELSE data_lines[1] \o CRLF \o data_lines[2]
    ELSE data_lines[1]

\* one pass of the loop of parse_post_upload: Ok(<<name, value>>) or the failure
ParseSection(raw_section, boundary) ==
    LET last_sep == Chars("--") \o boundary \o Chars("--\r\n")
        cut == Len(raw_section) - Len(last_sep) - 2
        section == IF EndsWith(raw_section, last_sep)
                   THEN SubSeq(raw_section, 1, cut)
                   ELSE raw_section
        lines == SplitN(3, section, CRLF)
        name == SectionName(lines[1])
    IN IF EndsWith(raw_section, last_sep) /\ cut < 0 THEN Panic
       ELSE IF name.status # "ok" THEN name
       ELSE IF Len(lines) < 3 THEN Err("broken section in post body")
       ELSE Ok(<<ToLowercase(name.value), SectionValue(lines[3])>>)

\* the loop over the first n sections, stopping at the first failure
RECURSIVE ParseSections(_, _, _)
ParseSections(sections, n, boundary) ==
    IF n = 0 THEN Ok(EmptyMap)
    ELSE LET before == ParseSections(sections, n - 1, boundary)
             this == ParseSection(sections[n], boundary)
         IN IF before.status # "ok" THEN before
            ELSE IF this.status # "ok" THEN this
            ELSE Ok(MapInsert(before.value, this.value[1], this.value[2]))

\* parse_post_upload: the pieces after the first "--boundary\r\n"
ParsePostUpload(body_text, boundary) ==
    LET sections == Tail(Split(body_text, Chars("--") \o boundary \o CRLF)) IN
    ParseSections(sections, Len(sections), boundary)

\* find_map over the pieces of the content-type header between ';', trimmed:
\* it stops at the first piece that starts with boundary=
BoundaryPieces(pieces) ==
    {k \in 1..Len(pieces) : StartsWith(Trim(pieces[k]), Chars("boundary="))}

FirstBoundaryPiece(pieces) ==
    IF BoundaryPieces(pieces) = {} THEN 0
    ELSE CHOOSE k \in BoundaryPieces(pieces) : \A m \in BoundaryPieces(pieces) : k <= m

\* boundary: the text between the first and the second '=' of that piece
ContentTypeBoundary(pieces) ==
    IF FirstBoundaryPiece(pieces) = 0 THEN <<>>
    ELSE <<Split(Trim(pieces[FirstBoundaryPiece(pieces)]), <<"=">>)[2]>>

\* content_type: the first piece visited, when it is not the boundary piece
ContentTypeName(pieces) ==
    IF FirstBoundaryPiece(pieces) = 1 THEN <<>> ELSE <<Trim(pieces[1])>>

\* parse_post
ParsePost(headers, body_text) ==
    LET ct == MapGet(headers, Chars("content-type")) IN
    IF ct = <<>> THEN ParseParameters(body_text)
    ELSE LET pieces == Split(ct[1], <<";">>)
             content_type == ContentTypeName(pieces)
             boundary == ContentTypeBoundary(pieces)
         IN IF content_type = <<Chars("multipart/form-data")>>
            THEN IF boundary = <<>> THEN Err("post upload, but no boundary")
                 ELSE ParsePostUpload(body_text, boundary[1])
            ELSE ParseParameters(body_text)

\* from_utf8(&body).unwrap_or_default()
BodyUtf8(bytes) == IF ValidUtf8(bytes) THEN bytes ELSE <<>>

\* the end of from once the body is complete: the GET and POST parameters
\* and the request
FinishRequest(raw, body_bytes) ==
    LET reqln == RequestLine(raw)
        headers == ParseHeaders(Lines(raw), Len(Lines(raw)))
        get == ParseParameters(ParseGetRaw(reqln))
        post == ParsePost(headers, BodyUtf8(body_bytes))
    IN IF post.status # "ok" THEN post
       ELSE Ok([method |-> ParseMethod(reqln), url |-> ParseUrl(reqln),
                headers |-> headers, get |-> get.value, post |-> post.value,
                body |-> body_bytes])

-----------------------------------------------------------------------------
(* HttpRequest::from: the steps *)

FromFrame == <<staticVars, wire, headerVars, raw_header, body_reads, sessionVars>>

ShortBodyRead_Never(length) == FALSE

\* length < http_settings.body_buffer
ShortBodyRead(length) == length < http_options.body_buffer

FailedTooOften_AtBudget(fails) == fails >= http_options.body_read_attempts

\* read_fails > http_settings.body_read_attempts
FailedTooOften(fails) == fails > http_options.body_read_attempts

BodyTooLarge_Never(n) == FALSE

\* con_len > http_settings.max_body_size
BodyTooLarge(n) == n > http_options.max_body_size

FromReturns_ReadsOn(r) ==
    /\ pc' = "read_header"
    /\ request_result' = r.status
    /\ request' = r.value

BodyWithoutLength_Leftover(leftover) == leftover

\* `body` when there is no content-length: it stays Vec::new(), the leftover
\* in raw_body is dropped
BodyWithoutLength(leftover) == <<>>

\* from returns r, or the thread unwinds from a panic
FromReturns(r) ==
    /\ pc' = IF r.status = "panic" THEN "panicked" ELSE "from_done"
    /\ request_result' = r.status
    /\ request' = r.value

\* from up to its first body read: the header lines, content-length and its
\* checks; without a body to read it runs to its end
FromBegin ==
    /\ pc = "from"
    /\ LET lines == Lines(raw_header)
           found == ContentLengthHeader(ParseHeaders(lines, Len(lines)))
           n == ParseUsize(found[1])
       IN
       IF lines = <<>>
       THEN /\ FromReturns(Err("Empty header"))
            /\ UNCHANGED <<buf_len, con_len, raw_body>>
       ELSE /\ buf_len' = found
            /\ IF found = <<>>
               THEN \* no content-length: the body loop is skipped
                    /\ FromReturns(FinishRequest(raw_header, BodyWithoutLength(raw_body)))
                    /\ UNCHANGED <<con_len, raw_body>>
               ELSE IF n < 0
               THEN /\ FromReturns(Err("Content-Length is not of type usize"))
                    /\ UNCHANGED <<con_len, raw_body>>
               ELSE IF BodyTooLarge(n)
               THEN /\ FromReturns(Err("Max body size exceeded"))
                    /\ UNCHANGED <<con_len, raw_body>>
               ELSE /\ con_len' = n
                    /\ IF Len(raw_body) < n
                       THEN pc' = "read_body" /\ UNCHANGED <<request_result, request>>
                       ELSE FromReturns(FinishRequest(raw_header, raw_body))
                    /\ UNCHANGED raw_body
    /\ UNCHANGED <<pos, read_fails>>
    /\ UNCHANGED FromFrame

\* one pass of the body loop: a read of up to body_buffer bytes, the append,
\* the count of short reads, then the loop condition
ReadBody ==
    /\ pc = "read_body"
    /\ \E length \in ReadSizes(http_options.body_buffer) :
         LET grown == raw_body \o ReadBytes(length)
             fails == IF ShortBodyRead(length) THEN read_fails + 1 ELSE read_fails
         IN
         /\ pos' = pos + length
         /\ raw_body' = grown
         /\ read_fails' = fails
         /\ body_reads' = Append(body_reads, length)
         /\ IF ShortBodyRead(length) /\ FailedTooOften(fails)
            THEN FromReturns(Err("Read body failed too often"))
            ELSE IF Len(grown) < con_len
            THEN UNCHANGED <<pc, request_result, request>>
            ELSE FromReturns(FinishRequest(raw_header, grown))
    /\ UNCHANGED <<staticVars, wire, headerVars, raw_header, buf_len, con_len,
                   sessionVars>>

\* stream.read(..) returns Err in the body loop
BodyReadError ==
    /\ pc = "read_body"
    /\ FromReturns(Err("Stream broken"))
    /\ UNCHANGED <<pos, raw_body, buf_len, con_len, read_fails>>
    /\ UNCHANGED FromFrame

-----------------------------------------------------------------------------
(* respond, set_content_length, redirect *)

\* usize::to_string()
RECURSIVE UsizeToString(_)
UsizeToString(n) ==
    IF n < 10 THEN <<Digits[n + 1]>>
    ELSE UsizeToString(n \div 10) \o <<Digits[(n % 10) + 1]>>

\* ResponseData::new()
NewResponseData == [status |-> "200 OK", headers |-> <<>>]

\* ResponseData::set_status
SetStatus(data, status) == [data EXCEPT !.status = status]

\* the headers of a ResponseData are its <<key, value>> pairs in the order of
\* the keys, the order in which BTreeMap::iter visits them
RECURSIVE HeaderLines(_)
HeaderLines(pairs) ==
    IF pairs = <<>> THEN ""
    ELSE "\r\n" \o pairs[1][1] \o ": " \o pairs[1][2] \o HeaderLines(Tail(pairs))

\* `status` of respond
RespondStatus(data) == "200 OK"

SetContentLength_Exact(content_length) ==
    CRLF \o Chars("content-length: ") \o UsizeToString(content_length) \o CRLF \o CRLF

\* set_content_length
SetContentLength(content_length) ==
    CRLF \o Chars("content-length: ") \o UsizeToString(content_length + 2) \o CRLF \o CRLF

\* respond: content is [variant, bytes], every variant is written the same way
Respond(content, content_type, data) ==
    Chars("HTTP/1.1 " \o RespondStatus(data)
          \o "\r\nserver: ltheinrich.de/lhi\r\ncontent-type: " \o content_type
          \o "; charset=utf-8" \o HeaderLines(data.headers))
    \o SetContentLength(Len(content.bytes))
    \o content.bytes
    \o CRLF

Text(str) == [variant |-> "Text", bytes |-> Chars(str)]

\* redirect
RedirectData(url) == [status |-> "303 See Other", headers |-> <<<<"location", url>>>>]

\* the page of redirect
RedirectPage(url) ==
    Text("<html><head><title>Moved</title></head><body><h1>Moved</h1><p><a href=\""
         \o url \o "\">" \o url \o "</a></p></body></html>")

Redirect(url) == Respond(RedirectPage(url), "text/html", RedirectData(url))

\* version(): the version string of the crate
Version == "0.2.0"

\* the static after version() ran: get_version() returns it unless it is still
\* "", and then init_version(CARGO_TOML) stores the version string in it
InitVersion(stored) == IF stored = "" THEN Version ELSE stored

\* the page handle_connection builds for a failure of read_header
ErrorPage(err) ==
    Text("<!DOCTYPE html><html><head><title>" \o err
         \o "</title></head><body><h3>HTTP server error</h3><p>" \o err
         \o "</p><hr><address>ltheinrich.de/lhi v" \o Version
         \o "</address></body></html>")

\* ResponseData::new().set_status("400 Bad Request")
BadRequestData == SetStatus(NewResponseData, "400 Bad Request")

-----------------------------------------------------------------------------
(* handle_connection *)

SessionFresh ==
    /\ handler_calls = 0
    /\ handler_arg = "none"
    /\ resp_data = <<>>
    /\ resp_content = <<>>
    /\ response = <<>>
    /\ written = "none"

\* a session on its own: no acceptor thread, no other session
NoServer ==
    /\ threads = -1
    /\ handler_threads = <<>>
    /\ connections = <<>>
    /\ accepts = 0
    /\ accept_errors = 0

\* what a Handler can do with the Result it is given: build a response with
\* respond or redirect, fail, or panic
HandlerOutcomes ==
    {[kind |-> "respond", content |-> Text("ok"), content_type |-> "text/html",
      data |-> NewResponseData],
     [kind |-> "respond", content |-> [variant |-> "StaticByte", bytes |-> <<HI, "x">>],
      content_type |-> "application/octet-stream",
      data |-> [status |-> "404 Not Found", headers |-> <<<<"a", "1">>, <<"b", "2">>>>]],
     [kind |-> "respond",
      content |-> [variant |-> "Byte",
                   bytes |-> <<"x", CR, LF, CR, LF, "x", CR, LF>>],
      content_type |-> "text/plain", data |-> NewResponseData],
     [kind |-> "respond", content |-> [variant |-> "StaticText", bytes |-> <<>>],
      content_type |-> "text/plain", data |-> NewResponseData],
     [kind |-> "redirect", url |-> "/x"],
     [kind |-> "err", msg |-> "filename missing"],
     [kind |-> "panic"]}

CallsHandler_Always(framed) == TRUE

\* the arm of the match on read_header's result in which handler is called
CallsHandler(framed) == framed = "ok"

SessionFrame == <<staticVars, transportVars, headerVars>>

\* Ok((header, rest)): HttpRequest::from is called with them
CallFrom ==
    /\ pc = "header_done"
    /\ CallsHandler(header_result)
    /\ header_result = "ok"
    /\ pc' = "from"
    /\ raw_header' = header
    /\ raw_body' = rest
    /\ UNCHANGED <<buf_len, con_len, read_fails, request_result, request, body_reads>>
    /\ UNCHANGED <<SessionFrame, sessionVars>>

\* handler(http_request) and the match on what it returns
CallHandler ==
    /\ \/ pc = "from_done"
       \/ pc = "header_done" /\ CallsHandler(header_result) /\ header_result # "ok"
    /\ handler_calls' = handler_calls + 1
    /\ handler_arg' = request_result
    /\ \E out \in HandlerOutcomes :
         CASE out.kind = "respond" ->
                /\ response' = Respond(out.content, out.content_type, out.data)
                /\ resp_data' = out.data
                /\ resp_content' = out.content
                /\ pc' = "write"
           [] out.kind = "redirect" ->
                /\ response' = Redirect(out.url)
                /\ resp_data' = RedirectData(out.url)
                /\ resp_content' = RedirectPage(out.url)
                /\ pc' = "write"
           [] out.kind = "err" ->
                /\ response' = Respond(Text(out.msg), "text/plain", BadRequestData)
                /\ resp_data' = BadRequestData
                /\ resp_content' = Text(out.msg)
                /\ pc' = "write"
           [] out.kind = "panic" ->
                /\ pc' = "panicked"
                /\ UNCHANGED <<response, resp_data, resp_content>>
    /\ UNCHANGED <<written, VERSION>>
    /\ UNCHANGED <<SessionFrame, fromVars>>

\* Err(err) of read_header: the generated page
RespondHeaderError ==
    /\ pc = "header_done"
    /\ ~CallsHandler(header_result)
    /\ response' = Respond(ErrorPage(header_result), "text/html", BadRequestData)
    /\ resp_data' = BadRequestData
    /\ resp_content' = ErrorPage(header_result)
    /\ VERSION' = InitVersion(VERSION)
    /\ pc' = "write"
    /\ UNCHANGED <<handler_calls, handler_arg, written>>
    /\ UNCHANGED <<SessionFrame, fromVars>>

\* stream.write_all(&response) and stream.flush() return Ok
WriteResponse ==
    /\ pc = "write"
    /\ written' = "all"
    /\ pc' = "closed"
    /\ UNCHANGED <<handler_calls, handler_arg, resp_data, resp_content, response, VERSION>>
    /\ UNCHANGED <<SessionFrame, fromVars>>

\* one of them returns Err: handle_connection returns it, the caller drops it
WriteError ==
    /\ pc = "write"
    /\ written' = "error"
    /\ pc' = "closed"
    /\ UNCHANGED <<handler_calls, handler_arg, resp_data, resp_content, response, VERSION>>
    /\ UNCHANGED <<SessionFrame, fromVars>>

-----------------------------------------------------------------------------
(* read_header on its own: every stream up to MaxWire bytes, every chunking *)

HeaderOptions ==
    {[max_header_size |-> m, max_body_size |-> 0, header_buffer |-> b,
      body_buffer |-> 1, body_read_attempts |-> 0] :
        m \in MinHeaderSize..MaxHeaderSize, b \in 1..MaxHeaderBuffer}

InitHeader ==
    /\ wire \in SeqsUpTo(WireBytes, MaxWire)
    /\ http_options \in HeaderOptions
    /\ pos = 0
    /\ pc = "read_header"
    /\ header = <<>>
    /\ rest = <<>>
    /\ buf = <<>>
    /\ idx = 0
    /\ header_result = "pending"
    /\ zero_reads = 0
    /\ tls = "handshaking"
    /\ raw_header = <<>>
    /\ raw_body = <<>>
    /\ buf_len = <<>>
    /\ con_len = -1
    /\ read_fails = 0
    /\ request_result = "pending"
    /\ request = <<>>
    /\ body_reads = <<>>
    /\ SessionFresh
    /\ VERSION = ""
    /\ NoServer

NextHeader == ReadHeaderChunk \/ ShortRead \/ HeaderReadError

SpecHeader == InitHeader /\ [][NextHeader]_vars

-----------------------------------------------------------------------------
(* HttpRequest::from on its own: header texts that declare different        *)
(* content-lengths, every leftover and every continuation of the stream up *)
(* to the bounds, every chunking                                            *)

BodyBytes == {"x"}

ContentLengthValues ==
    {"0", "1", "2", "3", "4", "+2", " 3 ", "", "-1", "2x", "1000", "99999"}

FromHeaders ==
    {Chars("POST / HTTP/1.1\r\ncontent-length:" \o v \o "\r\n\r\n") :
        v \in ContentLengthValues}
    \cup {Chars("POST / HTTP/1.1\r\nContent-Length: 2\r\n\r\n"),
          Chars("POST / HTTP/1.1\r\nhost: x\r\n\r\n"),
          Chars("GET /?q=1 HTTP/1.1\r\nhost: x\r\n\r\n"),
          Chars("POST /u HTTP/1.1\r\ncontent-type: multipart/form-data\r\n\r\n")}

FromOptions ==
    {[max_header_size |-> 0, max_body_size |-> m, header_buffer |-> 1,
      body_buffer |-> b, body_read_attempts |-> a] :
        m \in 1..MaxBodySize, b \in 1..MaxBodyBuffer, a \in 0..MaxAttempts}

\* the fields of a multipart form: up to MaxParts <<name, value>> pairs whose
\* names differ also after lower-casing
MultipartNames == {"a", "b", "N"}

MultipartValues == {"1", "hello world", "x\r\ny", ""}

MultipartFields ==
    {fs \in SeqsUpTo(MultipartNames \X MultipartValues, MaxParts) :
        /\ fs # <<>>
        /\ \A j, k \in 1..Len(fs) : j # k => fs[j][1] # fs[k][1]}

MultipartBoundaries == {"XYZ"}

\* a part as a browser sends it: the delimiter line, the Content-Disposition
\* line with the name, a blank line, the value and \r\n
MultipartPart(boundary, field) ==
    Chars("--" \o boundary \o "\r\nContent-Disposition: form-data; name=\""
          \o field[1] \o "\"\r\n\r\n" \o field[2] \o "\r\n")

\* the parts in order, closed by --boundary--\r\n
RECURSIVE MultipartBody(_, _)
MultipartBody(boundary, fields) ==
    IF fields = <<>> THEN Chars("--" \o boundary \o "--\r\n")
    ELSE MultipartPart(boundary, fields[1]) \o MultipartBody(boundary, Tail(fields))

\* the header text of the POST that carries such a body
MultipartHeader(boundary, body_bytes) ==
    Chars("POST /u HTTP/1.1\r\ncontent-type: multipart/form-data; boundary=" \o boundary
          \o "\r\ncontent-length: ")
    \o UsizeToString(Len(body_bytes)) \o CRLF \o CRLF

\* the multipart POSTs, each with the fields it was made from
MultipartPosts ==
    {[fields |-> fields,
      header |-> MultipartHeader(boundary, MultipartBody(boundary, fields)),
      body |-> MultipartBody(boundary, fields)] :
        boundary \in MultipartBoundaries, fields \in MultipartFields}

MultipartOptions ==
    [max_header_size |-> 0, max_body_size |-> MultipartBodySize, header_buffer |-> 1,
     body_buffer |-> MultipartBodyBuffer, body_read_attempts |-> 1]

\* what from is given: a header text that declares a content-length with any
\* leftover and any continuation of the stream, or a multipart POST whose
\* body is already there or lacks its last bytes
FromInputs ==
    \/ /\ raw_header \in FromHeaders
       /\ raw_body \in SeqsUpTo(BodyBytes, MaxRest)
       /\ wire \in SeqsUpTo(BodyBytes, MaxBody)
       /\ http_options \in FromOptions
    \/ \E post \in MultipartPosts, missing \in {0, MultipartBodyBuffer} :
         /\ raw_header = post.header
         /\ raw_body = SubSeq(post.body, 1, Len(post.body) - missing)
         /\ wire = SubSeq(post.body, Len(post.body) - missing + 1, Len(post.body))
         /\ http_options = MultipartOptions

InitFrom ==
    /\ FromInputs
    /\ pos = 0
    /\ pc = "from"
    /\ header = raw_header
    /\ rest = raw_body
    /\ buf = <<>>
    /\ idx = 0
    /\ header_result = "ok"
    /\ zero_reads = 0
    /\ tls = "established"
    /\ buf_len = <<>>
    /\ con_len = -1
    /\ read_fails = 0
    /\ request_result = "pending"
    /\ request = <<>>
    /\ body_reads = <<>>
    /\ SessionFresh
    /\ VERSION = ""
    /\ NoServer

NextFrom == FromBegin \/ ReadBody \/ BodyReadError

SpecFrom == InitFrom /\ [][NextFrom]_vars

-----------------------------------------------------------------------------
(* handle_connection for one connection: a few requests, every chunking *)

SessionWires ==
    {Chars("GET /?file=test.txt HTTP/1.1\r\nhost: x\r\n\r\n"),
     Chars("POST /p HTTP/1.1\r\ncontent-length: 3\r\n\r\na=1"),
     Chars("POST /p HTTP/1.1\r\ncontent-length: 5\r\n\r\na=1&b"),
     Chars("POST /p HTTP/1.1\r\ncontent-length: 9\r\n\r\na=1"),
     Chars("POST /p HTTP/1.1\r\nContent-Length: x\r\n\r\n"),
     Chars("GET / HTTP/1.1\r\nhost: a-long-header-value\r\n\r\n"),
     Chars("GET / HTTP/1.1\r\nhost: x\r\n"),
     Chars("\r\n\r\n"),
     <<HI, CR, LF, CR, LF>>,
     Chars("POST /p HTTP/1.1\r\ncontent-length: 99\r\n\r\n"),
     Chars("POST /p HTTP/1.1\r\ncontent-length: 3\r\n\r\n") \o <<"a", "=", HI>>,
     Chars("POST /u HTTP/1.1\r\ncontent-type: multipart/form-data; boundary=b\r\n"
           \o "content-length: 12\r\n\r\n--b\r\n--b--\r\n"),
     Chars("POST /u HTTP/1.1\r\ncontent-type: multipart/form-data; boundary=b\r\n"
           \o "content-length: 10\r\n\r\n--b\r\nname=")}

SessionOptions ==
    {[max_header_size |-> SessionHeaderSize, max_body_size |-> SessionBodySize,
      header_buffer |-> b, body_buffer |-> SessionBodyBuffer,
      body_read_attempts |-> SessionAttempts] : b \in {SessionHeaderBuffer, SessionHeaderSize}}

Init ==
    /\ wire \in SessionWires
    /\ http_options \in SessionOptions
    /\ pos = 0
    /\ pc = "read_header"
    /\ header = <<>>
    /\ rest = <<>>
    /\ buf = <<>>
    /\ idx = 0
    /\ header_result = "pending"
    /\ zero_reads = 0
    /\ tls = "handshaking"
    /\ raw_header = <<>>
    /\ raw_body = <<>>
    /\ buf_len = <<>>
    /\ con_len = -1
    /\ read_fails = 0
    /\ request_result = "pending"
    /\ request = <<>>
    /\ body_reads = <<>>
    /\ SessionFresh
    /\ VERSION = ""
    /\ NoServer

Next ==
    \/ ReadHeaderChunk
    \/ ShortRead
    \/ HeaderReadError
    \/ CallFrom
    \/ FromBegin
    \/ ReadBody
    \/ BodyReadError
    \/ CallHandler
    \/ RespondHeaderError
    \/ WriteResponse
    \/ WriteError

Spec == Init /\ [][Next]_vars

-----------------------------------------------------------------------------
(* listen and accept_connections: the acceptor threads and the threads they *)
(* spawn.  A spawned thread runs handle_connection; here it is followed    *)
(* through its calls only (read_header, from, handler, version, write),    *)
(* each with every way it can end, since the bytes of one connection do    *)
(* not matter to the other threads.  thread::spawn is taken to succeed.    *)

\* the variables of one session followed byte by byte, unused here
detailVars == <<transportVars, http_options, headerVars, fromVars, handler_calls,
                handler_arg, resp_data, resp_content, response, written>>

\* a read of the static that races with init_version in another thread
Torn == "<torn>"

\* the thread spawned for an accepted stream
NewConnection(stream) ==
    [stream |-> stream, pc |-> "read_header", written |-> "none",
     version |-> "", after_failures |-> accept_errors
        + Cardinality({c \in 1..Len(connections) :
                          \/ connections[c].pc = "panicked"
                          \/ connections[c].written = "error"})]

AfterSpawn_Joins == "join"

\* where an acceptor is after thread::spawn returned: the JoinHandle is
\* dropped and the loop goes back to accept
AfterSpawn == "accept"

Spawn_Nothing(conns, stream) == conns

\* thread::spawn(move || { handle_connection(stream, ..).ok(); })
Spawn(conns, stream) == Append(conns, NewConnection(stream))

\* listen: bind, then (0..threads).for_each spawns the acceptor threads
Listen ==
    /\ pc = "listen"
    /\ \E n \in 0..MaxThreads :
         /\ threads' = n
         /\ handler_threads' = [t \in 1..n |-> "accept"]
    /\ pc' = "listening"
    /\ UNCHANGED <<connections, accepts, accept_errors, VERSION, detailVars>>

\* TcpListener::bind(addr) returns Err: listen returns it, no thread is started
ListenBindError ==
    /\ pc = "listen"
    /\ threads' \in 0..MaxThreads
    /\ pc' = "bind_failed"
    /\ UNCHANGED <<handler_threads, connections, accepts, accept_errors, VERSION,
                   detailVars>>

\* one pass of the loop of accept_connections in which accept returns Ok
AcceptConnection(t) ==
    /\ pc = "listening"
    /\ handler_threads[t] = "accept"
    /\ accepts < MaxConnections
    /\ accepts' = accepts + 1
    /\ connections' = Spawn(connections, accepts + 1)
    /\ handler_threads' = [handler_threads EXCEPT ![t] = AfterSpawn]
    /\ UNCHANGED <<pc, threads, accept_errors, VERSION, detailVars>>

\* one pass in which accept returns Err: the if let skips it
AcceptError(t) ==
    /\ pc = "listening"
    /\ handler_threads[t] = "accept"
    /\ accept_errors < MaxAcceptErrors
    /\ accept_errors' = accept_errors + 1
    /\ UNCHANGED <<pc, threads, handler_threads, connections, accepts, VERSION,
                   detailVars>>

\* the frame of a step of the thread of connection c
ConnectionFrame == <<pc, threads, handler_threads, accepts, accept_errors, detailVars>>

At(c, where) == c \in 1..Len(connections) /\ connections[c].pc = where

\* read_header returns: Ok goes on to from, Err to the generated page
ConnReadHeader(c) ==
    /\ At(c, "read_header")
    /\ \E to \in {"from", "version"} :
         connections' = [connections EXCEPT ![c].pc = to]
    /\ UNCHANGED <<VERSION, ConnectionFrame>>

\* HttpRequest::from returns a request or a Fail, or a slice of
\* parse_post_upload panics and the thread unwinds
ConnFrom(c) ==
    /\ At(c, "from")
    /\ \E to \in {"handler", "panicked"} :
         connections' = [connections EXCEPT ![c].pc = to]
    /\ UNCHANGED <<VERSION, ConnectionFrame>>

\* handler(http_request) returns Ok or Err, both give a response, or panics
ConnHandler(c) ==
    /\ At(c, "handler")
    /\ \E to \in {"write", "panicked"} :
         connections' = [connections EXCEPT ![c].pc = to]
    /\ UNCHANGED <<VERSION, ConnectionFrame>>

\* what get_version() can return to connection c: the static, or a torn value
\* while another thread is about to store into it
VersionReads(c) ==
    IF \E d \in 1..Len(connections) : d # c /\ connections[d].pc = "init_version"
    THEN {VERSION, Torn}
    ELSE {VERSION}

\* version(): match get_version()
ConnVersion(c) ==
    /\ At(c, "version")
    /\ \E seen \in VersionReads(c) :
         connections' = [connections EXCEPT
                            ![c].pc = IF seen = "" THEN "init_version" ELSE "write",
                            ![c].version = seen]
    /\ UNCHANGED <<VERSION, ConnectionFrame>>

\* "" => init_version(CARGO_TOML): the store into the static, then the page
ConnInitVersion(c) ==
    /\ At(c, "init_version")
    /\ VERSION' = InitVersion("")
    /\ connections' = [connections EXCEPT ![c].pc = "write", ![c].version = Version]
    /\ UNCHANGED ConnectionFrame

\* write_all and flush: Ok(()) or the Err that accept_connections drops
ConnWrite(c) ==
    /\ At(c, "write")
    /\ \E result \in {"all", "error"} :
         connections' = [connections EXCEPT ![c].pc = "closed", ![c].written = result]
    /\ UNCHANGED <<VERSION, ConnectionFrame>>

InitServer ==
    /\ pc = "listen"
    /\ NoServer
    /\ VERSION = ""
    /\ wire = <<>>
    /\ pos = 0
    /\ http_options = [max_header_size |-> 8192, max_body_size |-> 10485760,
                       header_buffer |-> 8192, body_buffer |-> 8192,
                       body_read_attempts |-> 3]
    /\ header = <<>>
    /\ rest = <<>>
    /\ buf = <<>>
    /\ idx = 0
    /\ header_result = "pending"
    /\ zero_reads = 0
    /\ tls = "handshaking"
    /\ raw_header = <<>>
    /\ raw_body = <<>>
    /\ buf_len = <<>>
    /\ con_len = -1
    /\ read_fails = 0
    /\ request_result = "pending"
    /\ request = <<>>
    /\ body_reads = <<>>
    /\ SessionFresh

NextServer ==
    \/ Listen
    \/ ListenBindError
    \/ \E t \in 1..threads : AcceptConnection(t)
    \/ \E t \in 1..threads : AcceptError(t)
    \/ \E c \in 1..MaxConnections : ConnReadHeader(c)
    \/ \E c \in 1..MaxConnections : ConnFrom(c)
    \/ \E c \in 1..MaxConnections : ConnHandler(c)
    \/ \E c \in 1..MaxConnections : ConnVersion(c)
    \/ \E c \in 1..MaxConnections : ConnInitVersion(c)
    \/ \E c \in 1..MaxConnections : ConnWrite(c)

SpecServer == InitServer /\ [][NextServer]_vars

-----------------------------------------------------------------------------
(* Properties of read_header *)

Marker == <<CR, LF, CR, LF>>

\* the positions at which a copy of the marker ends in b
MarkerEnds(b) == {e \in 4..Len(b) : SubSeq(b, e - 3, e) = Marker}

ContainsMarker(b) == MarkerEnds(b) # {}

FirstMarkerEnd(b) == CHOOSE e \in MarkerEnds(b) : \A f \in MarkerEnds(b) : e <= f

HeaderOk == pc # "read_header" /\ pc # "short_read" /\ header_result = "ok"

HeaderFailed ==
    pc # "read_header" /\ pc # "short_read" /\ header_result \notin {"pending", "ok"}

\* C1: for a stream that contains \r\n\r\n, however it is chunked, read_header
\* returns a header that ends with the first marker of the stream and a
\* leftover such that header followed by leftover is a prefix of the stream,
\* and it does not read on past a marker it has consumed.
C1_SplitAtFirstMarker ==
    ContainsMarker(wire) =>
        /\ HeaderOk =>
             /\ header = SubSeq(wire, 1, FirstMarkerEnd(wire))
             /\ IsPrefix(header \o rest, wire)
        /\ pc = "read_header" => ~ContainsMarker(SubSeq(wire, 1, pos))

\* C2: read_header fails with the header-too-large error as soon as the
\* accumulated header exceeds max_header_size: it is never about to read with
\* a longer accumulator, and it never returns a longer header.
C2_HeaderWithinLimit ==
    Len(header) > http_options.max_header_size =>
        pc = "header_done" /\ header_result = "Max header size exceeded"

\* C4: once a zero-length read has been returned before the terminator was
\* seen, read_header has failed with a transport error and reads no more.
C4_ZeroReadFails ==
    zero_reads > 0 => HeaderFailed /\ header_result = "transport error"

\* C21: read_header does not fail with the header-too-large error when the
\* stream holds a header block, terminator included, of at most
\* max_header_size bytes, whatever follows it in the same read.
C21_OnlyHeaderBytesCount ==
    (ContainsMarker(wire) /\ FirstMarkerEnd(wire) <= http_options.max_header_size)
        => header_result # "Max header size exceeded"

-----------------------------------------------------------------------------
(* Properties of the body loop of HttpRequest::from *)

Stalled == request_result = "Read body failed too often"

\* the body loop was entered or skipped with a content-length within the limit
BodyAccepted == con_len >= 0

\* the k-th body read returned fewer bytes than body_buffer
ShortAt(k) == body_reads[k] < http_options.body_buffer

AllReadsShort == \A k \in 1..Len(body_reads) : ShortAt(k)

\* C3: the accumulated body, and the body of the returned request, never
\* exceed max_body_size bytes.
C3_BodyWithinLimit ==
    /\ BodyAccepted => Len(raw_body) <= http_options.max_body_size
    /\ request_result = "ok" => Len(request.body) <= http_options.max_body_size

\* C5: from fails with the read-stalled error only while the accumulated
\* body is shorter than the declared content-length.
C5_StalledOnlyWhenIncomplete == Stalled => Len(raw_body) < con_len

\* C6: while every body read is short and the body has not reached the
\* declared length, from keeps reading through body_read_attempts short reads
\* and fails with the read-stalled error on short read body_read_attempts + 1.
C6_FailsOnReadAfterBudget ==
    (BodyAccepted /\ AllReadsShort /\ Len(raw_body) < con_len
        /\ request_result # "Stream broken") =>
        IF Len(body_reads) <= http_options.body_read_attempts
        THEN pc = "read_body" /\ request_result = "pending"
        ELSE /\ Len(body_reads) = http_options.body_read_attempts + 1
             /\ pc = "from_done"
             /\ Stalled

C6_Witness ==
    /\ Stalled
    /\ AllReadsShort
    /\ Len(raw_body) < con_len
    /\ http_options.body_read_attempts = 3
    /\ Len(body_reads) = 4

\* C7: the read-stalled error needs body_read_attempts + 1 short reads in a
\* row: the reads that ended in the error are all short, none of them full.
C7_StallsAreConsecutive ==
    Stalled =>
        /\ Len(body_reads) > http_options.body_read_attempts
        /\ \A k \in (Len(body_reads) - http_options.body_read_attempts)..Len(body_reads) :
             ShortAt(k)

FullReads == Cardinality({k \in 1..Len(body_reads) : ~ShortAt(k)})

ShortReads == Cardinality({k \in 1..Len(body_reads) : ShortAt(k)})

\* ceil(a / b)
CeilDiv(a, b) == (a + b - 1) \div b

\* C22: with content-length L, from issues at most ceil(L / body_buffer)
\* reads that fill the buffer and at most body_read_attempts + 1 short reads,
\* and it has left the body loop, with a request or a failure, when either
\* number is reached: every read being full or short, the loop ends after a
\* bounded number of reads that return.
C22_BodyReadsBounded ==
    BodyAccepted =>
        /\ FullReads <= CeilDiv(con_len, http_options.body_buffer)
        /\ ShortReads <= http_options.body_read_attempts + 1
        /\ FullReads + ShortReads = Len(body_reads)
        /\ pc = "read_body" =>
             /\ FullReads < CeilDiv(con_len, http_options.body_buffer)
             /\ ShortReads <= http_options.body_read_attempts
        /\ pc # "read_body" => pc \in {"from_done", "panicked"}

C22_Witness ==
    /\ pc = "from_done"
    /\ FullReads >= 1
    /\ http_options.body_read_attempts >= 1
    /\ ShortReads = http_options.body_read_attempts + 1

\* C8: a content-length that parses to more than max_body_size makes from
\* fail with the body-too-large error, one that does not parse makes it fail
\* with the invalid-content-length error, and neither reads from the transport.
C8_RejectedWithoutRead ==
    buf_len # <<>> =>
        /\ ParseUsize(buf_len[1]) > http_options.max_body_size =>
             /\ body_reads = <<>> /\ pos = 0
             /\ pc = "from_done" => request_result = "Max body size exceeded"
        /\ ParseUsize(buf_len[1]) < 0 =>
             /\ body_reads = <<>> /\ pos = 0
             /\ pc = "from_done" =>
                  request_result = "Content-Length is not of type usize"

C8_Witness ==
    /\ pc = "from_done"
    /\ request_result = "Max body size exceeded"
    /\ buf_len # <<>>
    /\ ParseUsize(buf_len[1]) > http_options.max_body_size
    /\ wire # <<>>
    /\ pos = 0

-----------------------------------------------------------------------------
(* Properties of handle_connection and respond *)

ResponseBuilt == pc \in {"write", "closed"}

C11_ErrorsAreCaught ==
    /\ request_result # "panic"
    /\ pc = "panicked" => handler_calls = 1

\* the step of the session a position belongs to: 1 frame header, 2 parse
\* request, 3 call handler and build response, 4 write response, 5 ended
Phase(at) ==
    CASE at \in {"read_header", "short_read", "header_done"} -> 1
      [] at \in {"from", "read_body"} -> 2
      [] at = "from_done" -> 3
      [] at = "write" -> 4
      [] at \in {"closed", "panicked"} -> 5

\* C12: a session never steps back to an earlier step, it calls the handler
\* at most once, it builds its response once and writes it at most once, and
\* once the response is built it reads nothing more from the transport.
C12_StepsInOrder ==
    [][/\ Phase(pc') >= Phase(pc)
       /\ handler_calls' <= 1
       /\ handler_calls' # handler_calls => Phase(pc) \in {1, 3} /\ Phase(pc') >= 4
       /\ response # <<>> => response' = response /\ pos' = pos
       /\ written # "none" => written' = written /\ pc' = pc
       /\ written' # written => response # <<>> /\ Phase(pc) = 4]_vars

C12_Witness ==
    /\ pc = "closed"
    /\ written = "all"
    /\ handler_calls = 1
    /\ body_reads # <<>>
    /\ request_result = "ok"

\* C17: a request whose method is GET is returned with an empty post map.
C17_GetHasNoPostParams ==
    (request_result = "ok" /\ request.method = "GET") => request.post = EmptyMap

\* the content type that parse_post finds in the headers is multipart/form-data
IsMultipart(headers) ==
    LET ct == MapGet(headers, Chars("content-type")) IN
    /\ ct # <<>>
    /\ ContentTypeName(Split(ct[1], <<";">>)) = <<Chars("multipart/form-data")>>

\* C18: from returns no request for a POST that is not multipart and whose
\* body is not valid UTF-8.
C18_InvalidUtf8BodyFails ==
    (request_result = "ok" /\ request.method = "POST" /\ ~IsMultipart(request.headers))
        => ValidUtf8(request.body)

\* the bytes of a response before its first blank line
HeadOf(bytes) == SubSeq(bytes, 1, FirstMarkerEnd(bytes) - 4)

\* the last line of these bytes: what follows their last \r\n
LastLine(bytes) ==
    LET ends == {k \in 2..Len(bytes) : SubSeq(bytes, k - 1, k) = CRLF}
        from == IF ends = {} THEN 0 ELSE CHOOSE k \in ends : \A m \in ends : m <= k
    IN SubSeq(bytes, from + 1, Len(bytes))

\* the bytes of a response after its first blank line
AfterHead(bytes) == SubSeq(bytes, FirstMarkerEnd(bytes) + 1, Len(bytes))

\* C19: a response built by respond from a payload of N bytes has, as the
\* last line before its first blank line, content-length: N + 2, and after
\* the blank line the payload unchanged followed by one \r\n and nothing else
\* (looked at when the session is about to write it).
C19_ContentLengthAndTrailer ==
    pc = "write" =>
        LET last == LastLine(HeadOf(response))
            payload == resp_content.bytes
        IN /\ ContainsMarker(response)
           /\ StartsWith(last, Chars("content-length: "))
           /\ ParseUsize(SubSeq(last, 17, Len(last))) = Len(payload) + 2
           /\ AfterHead(response) = payload \o CRLF

C19_Witness ==
    /\ pc = "write"
    /\ resp_content.variant = "Byte"
    /\ Len(resp_content.bytes) = 8
    /\ EndsWith(response, CRLF \o CRLF)

\* the map a multipart form stands for: each lower-cased name with its value
RECURSIVE FieldsMap(_)
FieldsMap(fields) ==
    IF fields = <<>> THEN EmptyMap
    ELSE MapInsert(FieldsMap(SubSeq(fields, 1, Len(fields) - 1)),
                   ToLowercase(Chars(fields[Len(fields)][1])),
                   Chars(fields[Len(fields)][2]))

\* C20: when from has the whole body of a well-formed multipart POST, it
\* returns a request whose post map is exactly the map of the form's fields.
C20_MultipartDecodes ==
    (pc = "from_done"
        /\ request_result \notin {"Read body failed too often", "Stream broken"}) =>
        \A post \in MultipartPosts :
            (raw_header = post.header /\ raw_body = post.body) =>
                /\ request_result = "ok"
                /\ request.post = FieldsMap(post.fields)

\* parse_post finds multipart/form-data and no boundary in the header text
MultipartWithoutBoundary(raw) ==
    LET headers == ParseHeaders(Lines(raw), Len(Lines(raw)))
        ct == MapGet(headers, Chars("content-type"))
    IN /\ IsMultipart(headers)
       /\ ContentTypeBoundary(Split(ct[1], <<";">>)) = <<>>

\* from has returned for a header text without content-length
ReturnedWithoutLength == pc = "from_done" /\ buf_len = <<>>

\* C23 as claimed: without a content-length header from reads nothing and
\* returns a request with an empty body.
C23_NoLengthReturnsRequest ==
    ReturnedWithoutLength =>
        /\ body_reads = <<>> /\ pos = 0
        /\ request_result = "ok"
        /\ request.body = <<>>

\* C23 as amended: without a content-length header from reads nothing, and
\* it returns a request with an empty body, whatever leftover it was given,
\* unless the content type is multipart/form-data without a boundary: then it
\* fails with the missing-boundary error.
C23_NoLengthNoReadEmptyBody ==
    ReturnedWithoutLength =>
        /\ body_reads = <<>> /\ pos = 0
        /\ IF MultipartWithoutBoundary(raw_header)
           THEN request_result = "post upload, but no boundary"
           ELSE request_result = "ok" /\ request.body = <<>>

C23_Witness ==
    /\ ReturnedWithoutLength
    /\ raw_body # <<>>
    /\ wire # <<>>
    /\ request_result = "ok"
    /\ request.body = <<>>

\* C16: after a failed TLS handshake the session has built no response and
\* has attempted no write.
C16_FailedHandshakeNoResponse ==
    tls = "failed" => response = <<>> /\ written = "none"

\* the bytes before the first \r\n
FirstLine(bytes) == SubSeq(bytes, 1, FirstOccurrence(bytes, CRLF) - 1)

\* C10: the first line of a response built by respond is HTTP/1.1 followed
\* by the status of the ResponseData it was given.
C10_StatusLineCarriesStatus ==
    response # <<>> => FirstLine(response) = Chars("HTTP/1.1 " \o resp_data.status)

-----------------------------------------------------------------------------
(* Properties of listen, accept_connections and the spawned threads *)

Ended(c) == connections[c].pc \in {"closed", "panicked"}

Failed(c) == connections[c].pc = "panicked" \/ connections[c].written = "error"

\* some step of the thread of connection c
ConnStep(c) ==
    \/ ConnReadHeader(c)
    \/ ConnFrom(c)
    \/ ConnHandler(c)
    \/ ConnVersion(c)
    \/ ConnInitVersion(c)
    \/ ConnWrite(c)

\* C13: whatever fails in one session, every acceptor stays in its loop at
\* accept and can take the next connection, also after an accept that
\* failed; a step of one session changes no other session, and every session
\* that has not ended can take its next step.
C13_FailuresStayLocal ==
    /\ [](pc = "listening" =>
            /\ DOMAIN handler_threads = 1..threads
            /\ \A t \in 1..threads :
                 /\ handler_threads[t] = "accept"
                 /\ accepts < MaxConnections => ENABLED AcceptConnection(t)
            /\ \A c \in 1..Len(connections) : ~Ended(c) => ENABLED ConnStep(c))
    /\ [][/\ Len(connections') >= Len(connections)
          /\ \A c \in 1..Len(connections) :
               connections'[c] # connections[c] =>
                 /\ handler_threads' = handler_threads
                 /\ \A d \in 1..Len(connections) :
                      d # c => connections'[d] = connections[d]]_vars

C13_Witness ==
    /\ accept_errors > 0
    /\ \E c, e \in 1..Len(connections) :
         /\ Failed(c)
         /\ connections[e].after_failures >= 2
         /\ connections[e].written = "all"

\* C14: once listen has returned there are exactly `threads` acceptor
\* threads, all at accept and none waiting for a session, and the accepted
\* streams and the spawned sessions correspond one to one.
C14_OneSessionPerAccept ==
    /\ pc # "listening" => handler_threads = <<>> /\ connections = <<>>
    /\ pc = "listening" =>
         /\ Len(handler_threads) = threads
         /\ \A t \in 1..threads : handler_threads[t] = "accept"
         /\ Len(connections) = accepts
         /\ \A c \in 1..Len(connections) : connections[c].stream = c

\* more sessions are in flight than there are acceptor threads
C14_Witness ==
    /\ threads = 1
    /\ Cardinality({c \in 1..Len(connections) : ~Ended(c)}) > threads

\* C15: no step taken while the server is listening changes state that the
\* threads share: the settings stay as they were, and so does the static
\* behind version().
C15_SharedStateIsReadOnly ==
    [][pc = "listening" => UNCHANGED <<http_options, VERSION>>]_vars

====
